---- MODULE Spec2Model ----
(***************************************************************************)
(* Model of the PDDIKTI REST facade (src/app.py): one request at a time    *)
(* is routed to a handler, which validates its query parameters, enters    *)
(* the `with api() as client` scope, issues its upstream calls one after   *)
(* the other, shapes the results into the response envelope and leaves     *)
(* the scope.  The upstream client is external: every call either returns  *)
(* a value drawn from a small universe of Python values or raises.         *)
(***************************************************************************)
EXTENDS Integers, Sequences, FiniteSets, TLC

\* ---------------------------------------------------------------- bounds
MaxLen == 2        \* longest upstream list of records
MaxStrLen == 2     \* longest raw query-string value

\* ------------------------------------------------------- Python values
PyNone == [t |-> "none"]
PyInt(n) == [t |-> "int", n |-> n]
PyStr(s) == [t |-> "str", s |-> s]
PyList(x) == [t |-> "list", items |-> x]
PyDict(f) == [t |-> "dict", map |-> f]
EmptyMap == [k \in {} |-> PyNone]

\* bool(v)
Truthy(v) ==
    CASE v.t = "none" -> FALSE
      [] v.t = "int"  -> v.n # 0
      [] v.t = "str"  -> Len(v.s) > 0
      [] v.t = "list" -> Len(v.items) > 0
      [] v.t = "dict" -> DOMAIN v.map # {}

\* isinstance(v, dict) / isinstance(v, list)
IsDict(v) == v.t = "dict"
IsList(v) == v.t = "list"

\* d.get(k) and d.get(k, default) on a dict d
DictGetDefault(d, k, default) == IF k \in DOMAIN d.map THEN d.map[k] ELSE default
DictGet(d, k) == DictGetDefault(d, k, PyNone)

\* len(v): defined on str, list and dict, TypeError otherwise
HasLen(v) == v.t \in {"str", "list", "dict"}
PyLen(v) ==
    CASE v.t = "str"  -> Len(v.s)
      [] v.t = "list" -> Len(v.items)
      [] v.t = "dict" -> Cardinality(DOMAIN v.map)

TypeName(v) ==
    CASE v.t = "none" -> "NoneType"
      [] v.t = "int"  -> "int"
      [] v.t = "str"  -> "str"
      [] v.t = "list" -> "list"
      [] v.t = "dict" -> "dict"

\* str(e) of the exceptions Python raises inside a handler body
AttributeErrorGet(v) == <<"'", TypeName(v), "' object has no attribute 'get'">>
TypeErrorLen(v) == <<"object of type '", TypeName(v), "' has no len()">>

\* ------------------------------------------------------------- strings
\* Strings are sequences of characters; text is a sequence of tokens.
Chars == {" ", "a"}
RECURSIVE SeqsUpTo(_, _)
SeqsUpTo(S, n) ==
    IF n = 0 THEN {<<>>}
    ELSE LET shorter == SeqsUpTo(S, n - 1)
         IN  shorter \cup {Append(s, x) : s \in {u \in shorter : Len(u) = n - 1}, x \in S}

RECURSIVE LStrip(_)
LStrip(s) == IF s # <<>> /\ Head(s) = " " THEN LStrip(Tail(s)) ELSE s
RECURSIVE RStrip(_)
RStrip(s) ==
    IF s # <<>> /\ s[Len(s)] = " " THEN RStrip(SubSeq(s, 1, Len(s) - 1)) ELSE s
\* str.strip()
Strip(s) == RStrip(LStrip(s))

Digit == <<"0", "1", "2", "3", "4", "5", "6", "7", "8", "9">>
RECURSIVE NumStr(_)
\* the decimal rendering of a length inside an f-string
NumStr(n) == IF n < 10 THEN <<Digit[n + 1]>> ELSE NumStr(n \div 10) \o <<Digit[(n % 10) + 1]>>

\* request.args.get(name, default)
Absent == [present |-> FALSE, v |-> <<>>]
Given(s) == [present |-> TRUE, v |-> s]
ArgsGet(arg, default) == IF arg.present THEN arg.v ELSE default

\* ------------------------------------------------------------ envelopes
DefaultErrorStatus == 400

\* create_error_response leaving the 'data' key out of the body
create_error_response_NoData(message, status_code) ==
    [status |-> status_code, body |-> [success |-> FALSE, error |-> message]]

create_error_response(message, status_code) ==
    [status |-> status_code,
     body |-> [success |-> FALSE, error |-> message, data |-> PyNone]]

create_success_response(data, message) ==
    [status |-> 200,
     body |-> [success |-> TRUE, message |-> message, data |-> data]]

\* how a handler body ends: a returned response or a raised exception
Return(resp) == [kind |-> "return", resp |-> resp]
Raise(msg) == [kind |-> "raise", msg |-> msg]
NoOutcome == [kind |-> "none"]

\* ------------------------------------------------------ handler bodies
\* Each body is the code inside `with api() as client:` after the upstream
\* calls have returned; rs is the sequence of their results in call order.

QRequired == <<"Query parameter 'q' is required">>

\* SearchBody handing back result['data'] bare where the code hands back result
SearchBody_BareData(entity, keyword, result) ==
    LET none == Return(create_success_response(
                    PyDict([data |-> PyList(<<>>)]),
                    <<"No ", entity, " found matching '">> \o keyword \o <<"'">>))
        found(data, n) == Return(create_success_response(
                    data,
                    <<"Found ">> \o NumStr(n) \o <<" ", entity, " matching '">>
                        \o keyword \o <<"'">>))
    IN  IF Truthy(result)
        THEN IF IsDict(result) /\ Truthy(DictGet(result, "data"))
             THEN IF HasLen(result.map["data"])
                  THEN found(result.map["data"], PyLen(result.map["data"]))
                  ELSE Raise(TypeErrorLen(result.map["data"]))
             ELSE IF IsList(result) /\ PyLen(result) > 0
                  THEN found(PyDict([data |-> result]), PyLen(result))
                  ELSE none
        ELSE none

\* SearchBody testing `'data' in result` where the code tests result.get('data')
SearchBody_KeyPresent(entity, keyword, result) ==
    LET none == Return(create_success_response(
                    PyDict([data |-> PyList(<<>>)]),
                    <<"No ", entity, " found matching '">> \o keyword \o <<"'">>))
        found(data, n) == Return(create_success_response(
                    data,
                    <<"Found ">> \o NumStr(n) \o <<" ", entity, " matching '">>
                        \o keyword \o <<"'">>))
    IN  IF Truthy(result)
        THEN IF IsDict(result) /\ "data" \in DOMAIN result.map
             THEN IF HasLen(result.map["data"])
                  THEN found(result, PyLen(result.map["data"]))
                  ELSE Raise(TypeErrorLen(result.map["data"]))
             ELSE IF IsList(result) /\ PyLen(result) > 0
                  THEN found(PyDict([data |-> result]), PyLen(result))
                  ELSE none
        ELSE none

\* the result shaping shared verbatim by the four keyword searches
SearchBody(entity, keyword, result) ==
    LET none == Return(create_success_response(
                    PyDict([data |-> PyList(<<>>)]),
                    <<"No ", entity, " found matching '">> \o keyword \o <<"'">>))
        found(data, n) == Return(create_success_response(
                    data,
                    <<"Found ">> \o NumStr(n) \o <<" ", entity, " matching '">>
                        \o keyword \o <<"'">>))
    IN  IF Truthy(result)
        THEN IF IsDict(result) /\ Truthy(DictGet(result, "data"))
             THEN IF HasLen(result.map["data"])
                  THEN found(result, PyLen(result.map["data"]))
                  ELSE Raise(TypeErrorLen(result.map["data"]))
             ELSE IF IsList(result) /\ PyLen(result) > 0
                  THEN found(PyDict([data |-> result]), PyLen(result))
                  ELSE none
        ELSE none

search_universities(keyword, result) == SearchBody("universities", keyword, result)
search_students(keyword, result) == SearchBody("students", keyword, result)
search_lecturers(keyword, result) == SearchBody("lecturers", keyword, result)
search_programs(keyword, result) == SearchBody("programs", keyword, result)

get_university_detail(result) ==
    IF Truthy(result)
    THEN Return(create_success_response(result, <<"University details retrieved successfully">>))
    ELSE Return(create_error_response(<<"University not found">>, 404))

get_student_detail(result) ==
    IF Truthy(result)
    THEN Return(create_success_response(result, <<"Student details retrieved successfully">>))
    ELSE Return(create_error_response(<<"Student not found">>, 404))

get_lecturer_profile(result) ==
    IF Truthy(result)
    THEN Return(create_success_response(result, <<"Lecturer profile retrieved successfully">>))
    ELSE Return(create_error_response(<<"Lecturer not found">>, 404))

\* get_university_logo handing the logo back bare, like the other lookups
get_university_logo_Raw(result) ==
    IF Truthy(result)
    THEN Return(create_success_response(result, <<"University logo retrieved successfully">>))
    ELSE Return(create_error_response(<<"University logo not found">>, 404))

get_university_logo(result) ==
    IF Truthy(result)
    THEN Return(create_success_response(
             PyDict([logo_base64 |-> result, format |-> PyStr(<<"base64">>)]),
             <<"University logo retrieved successfully">>))
    ELSE Return(create_error_response(<<"University logo not found">>, 404))

get_university_programs(semester, result) ==
    LET none == Return(create_success_response(
                    PyList(<<>>), <<"No programs found for semester ">> \o semester))
    IN  IF ~Truthy(result) THEN none
        ELSE IF ~IsDict(result) THEN Raise(AttributeErrorGet(result))
        ELSE IF ~Truthy(DictGet(result, "data")) THEN none
        ELSE IF ~HasLen(result.map["data"]) THEN Raise(TypeErrorLen(result.map["data"]))
        ELSE Return(create_success_response(
                 result,
                 <<"Found ">> \o NumStr(PyLen(result.map["data"]))
                     \o <<" programs for semester ">> \o semester))

search_all(keyword, result) ==
    IF Truthy(result)
    THEN Return(create_success_response(
             result, <<"Search completed for '">> \o keyword \o <<"'">>))
    ELSE Return(create_success_response(
             PyList(<<>>), <<"No results found for '">> \o keyword \o <<"'">>))

\* `x.get(key) if x else None`, given that x is None, falsy or a dict
NullSafeGet(x, key) == IF Truthy(x) THEN DictGet(x, key) ELSE PyNone
\* `x.get('data', []) if x else []`
DataOrEmpty(x) == IF Truthy(x) THEN DictGetDefault(x, "data", PyList(<<>>)) ELSE PyList(<<>>)

\* the first result, in evaluation order, on which `.get` does not exist
NoGet(rs) == {i \in 1..Len(rs) : Truthy(rs[i]) /\ ~IsDict(rs[i])}
FirstNoGet(rs) == CHOOSE i \in NoGet(rs) : \A j \in NoGet(rs) : i <= j

StatsKeys == <<"jumlah_mahasiswa", "jumlah_dosen", "jumlah_prodi", "rasio",
               "graduation_rate", "range_biaya_kuliah">>

\* get_university_stats answering 404 when no sub-call has anything, as the
\* program detail does
get_university_stats_NotFound(rs) ==
    IF NoGet(rs) # {} THEN Raise(AttributeErrorGet(rs[FirstNoGet(rs)]))
    ELSE IF \A i \in 1..Len(rs) : ~Truthy(rs[i])
    THEN Return(create_error_response(<<"University not found">>, 404))
    ELSE Return(create_success_response(
             PyDict([students        |-> NullSafeGet(rs[1], StatsKeys[1]),
                     lecturers       |-> NullSafeGet(rs[2], StatsKeys[2]),
                     programs        |-> NullSafeGet(rs[3], StatsKeys[3]),
                     ratio           |-> NullSafeGet(rs[4], StatsKeys[4]),
                     graduation_rate |-> NullSafeGet(rs[5], StatsKeys[5]),
                     cost_range      |-> NullSafeGet(rs[6], StatsKeys[6])]),
             <<"University statistics retrieved successfully">>))

get_university_stats(rs) ==
    IF NoGet(rs) # {} THEN Raise(AttributeErrorGet(rs[FirstNoGet(rs)]))
    ELSE Return(create_success_response(
             PyDict([students        |-> NullSafeGet(rs[1], StatsKeys[1]),
                     lecturers       |-> NullSafeGet(rs[2], StatsKeys[2]),
                     programs        |-> NullSafeGet(rs[3], StatsKeys[3]),
                     ratio           |-> NullSafeGet(rs[4], StatsKeys[4]),
                     graduation_rate |-> NullSafeGet(rs[5], StatsKeys[5]),
                     cost_range      |-> NullSafeGet(rs[6], StatsKeys[6])]),
             <<"University statistics retrieved successfully">>))

CountsKeys == <<"jumlah_dosen", "jumlah_mahasiswa", "jumlah", "jumlah">>

get_national_counts(rs) ==
    IF NoGet(rs) # {} THEN Raise(AttributeErrorGet(rs[FirstNoGet(rs)]))
    ELSE Return(create_success_response(
             PyDict([active_lecturers |-> NullSafeGet(rs[1], CountsKeys[1]),
                     active_students  |-> NullSafeGet(rs[2], CountsKeys[2]),
                     programs         |-> NullSafeGet(rs[3], CountsKeys[3]),
                     universities     |-> NullSafeGet(rs[4], CountsKeys[4])]),
             <<"National statistics retrieved successfully">>))

get_lecturer_research(rs) ==
    IF NoGet(rs) # {} THEN Raise(AttributeErrorGet(rs[FirstNoGet(rs)]))
    ELSE Return(create_success_response(
             PyDict([research          |-> DataOrEmpty(rs[1]),
                     community_service |-> DataOrEmpty(rs[2]),
                     publications      |-> DataOrEmpty(rs[3]),
                     patents           |-> DataOrEmpty(rs[4])]),
             <<"Lecturer research activities retrieved successfully">>))

\* get_program_detail demanding both results (`detail and description`)
get_program_detail_And(rs) ==
    LET detail == rs[1]
        description == rs[2]
        result == PyDict([detail      |-> IF Truthy(detail) THEN detail ELSE PyDict(EmptyMap),
                          description |-> IF Truthy(description) THEN description
                                          ELSE PyDict(EmptyMap)])
    IN  IF Truthy(detail) /\ Truthy(description)
        THEN Return(create_success_response(result, <<"Program details retrieved successfully">>))
        ELSE Return(create_error_response(<<"Program not found">>, 404))

get_program_detail(rs) ==
    LET detail == rs[1]
        description == rs[2]
        result == PyDict([detail      |-> IF Truthy(detail) THEN detail ELSE PyDict(EmptyMap),
                          description |-> IF Truthy(description) THEN description
                                          ELSE PyDict(EmptyMap)])
    IN  IF Truthy(detail) \/ Truthy(description)
        THEN Return(create_success_response(result, <<"Program details retrieved successfully">>))
        ELSE Return(create_error_response(<<"Program not found">>, 404))

Categories == {<<"universities">>, <<"students">>, <<"lecturers">>, <<"programs">>}
InvalidCategory ==
    <<"Invalid category. Valid options: universities, students, lecturers, programs">>

\* the four result fields of each category, in the order of the dict literal
VisualizationFields(category) ==
    CASE category = <<"universities">> ->
           <<"by_form", "by_accreditation", "by_province", "by_supervisor_group">>
      [] category = <<"students">> ->
           <<"by_field", "by_gender", "by_level", "by_status">>
      [] category = <<"lecturers">> ->
           <<"by_activity", "by_field", "by_gender", "by_level">>
      [] category = <<"programs">> ->
           <<"by_level", "by_accreditation", "by_field", "by_supervisor_group">>
      [] OTHER -> <<>>

get_visualization_data(category, rs) ==
    IF category \in Categories
    THEN LET fields == VisualizationFields(category)
         IN  Return(create_success_response(
                 PyDict([k \in {fields[i] : i \in 1..4} |->
                            rs[CHOOSE i \in 1..4 : fields[i] = k]]),
                 <<"Visualization data for ">> \o category
                     \o <<" retrieved successfully">>))
    ELSE Return(create_error_response(InvalidCategory, DefaultErrorStatus))

\* --------------------------------------------------------------- routing
SearchRoutes == {"search_universities", "search_students", "search_lecturers",
                 "search_programs"}
LookupRoutes == {"get_university_detail", "get_student_detail", "get_lecturer_profile",
                 "get_university_logo"}
QRoutes == SearchRoutes \cup {"search_all"}
Routes == QRoutes \cup LookupRoutes \cup
          {"home", "get_university_programs", "get_university_stats",
           "get_lecturer_research", "get_program_detail", "get_national_counts",
           "get_visualization_data"}

NoArgs == [q |-> Absent, semester |-> Absent, category |-> Absent]

\* the local variables each handler reads from the query string
Keyword(a) == Strip(ArgsGet(a.q, <<>>))
Semester(a) == ArgsGet(a.semester, <<>>)
Category(a) == ArgsGet(a.category, <<"universities">>)

\* raw query strings a client can send
RawStrings == SeqsUpTo(Chars, MaxStrLen)
RawCategories == Categories \cup {<<"unknown">>, <<>>}
ArgsOf(r) ==
    CASE r \in QRoutes ->
           {[NoArgs EXCEPT !.q = x] : x \in {Absent} \cup {Given(s) : s \in RawStrings}}
      [] r = "get_university_programs" ->
           {[NoArgs EXCEPT !.semester = x] :
               x \in {Absent} \cup {Given(s) : s \in RawStrings}}
      [] r = "get_visualization_data" ->
           {[NoArgs EXCEPT !.category = x] :
               x \in {Absent} \cup {Given(c) : c \in RawCategories}}
      [] OTHER -> {NoArgs}

\* The check a handler makes before its try block: the 400 response it
\* returns, or NoOutcome when it goes on.
PreCheck(r, a) ==
    CASE r \in QRoutes ->
           IF Keyword(a) = <<>>
           THEN Return(create_error_response(QRequired, DefaultErrorStatus))
           ELSE NoOutcome
      [] r = "get_university_programs" ->
           IF Semester(a) = <<>>
           THEN Return(create_error_response(
                    <<"Query parameter 'semester' is required (format: YYYYS, e.g., 20241)">>,
                    DefaultErrorStatus))
           ELSE NoOutcome
      [] OTHER -> NoOutcome

\* The upstream client methods a handler calls, in the order it calls them.
Plan(r, a) ==
    CASE r = "search_universities" -> <<"search_pt">>
      [] r = "search_students" -> <<"search_mahasiswa">>
      [] r = "search_lecturers" -> <<"search_dosen">>
      [] r = "search_programs" -> <<"search_prodi">>
      [] r = "search_all" -> <<"search_all">>
      [] r = "get_university_detail" -> <<"get_detail_pt">>
      [] r = "get_student_detail" -> <<"get_detail_mhs">>
      [] r = "get_lecturer_profile" -> <<"get_dosen_profile">>
      [] r = "get_university_logo" -> <<"get_logo_pt">>
      [] r = "get_university_programs" -> <<"get_prodi_pt">>
      [] r = "get_university_stats" ->
           <<"get_jumlah_mahasiswa_pt", "get_jumlah_dosen_pt", "get_jumlah_prodi_pt",
             "get_rasio_pt", "get_graduation_rate_pt", "get_cost_range_pt">>
      [] r = "get_lecturer_research" ->
           <<"get_dosen_penelitian", "get_dosen_pengabdian", "get_dosen_karya",
             "get_dosen_paten">>
      [] r = "get_program_detail" -> <<"get_detail_prodi", "get_desc_prodi">>
      [] r = "get_national_counts" ->
           <<"get_dosen_count_active", "get_mahasiswa_count_active", "get_prodi_count",
             "get_pt_count">>
      [] r = "get_visualization_data" ->
           CASE Category(a) = <<"universities">> ->
                  <<"get_data_pt_bentuk", "get_data_pt_akreditasi", "get_data_pt_provinsi",
                    "get_data_pt_kelompok_pembina">>
             [] Category(a) = <<"students">> ->
                  <<"get_data_mahasiswa_bidang", "get_data_mahasiswa_jenis_kelamin",
                    "get_data_mahasiswa_jenjang", "get_data_mahasiswa_status">>
             [] Category(a) = <<"lecturers">> ->
                  <<"get_data_dosen_keaktifan", "get_data_dosen_bidang",
                    "get_data_dosen_jenis_kelamin", "get_data_dosen_jenjang">>
             [] Category(a) = <<"programs">> ->
                  <<"get_data_prodi_jenjang", "get_data_prodi_akreditasi",
                    "get_data_prodi_bidang_ilmu", "get_data_prodi_kelompok_pembina">>
             [] OTHER -> <<>>
      [] OTHER -> <<>>

\* The handler body applied to the results of its calls.
Body(r, a, rs) ==
    CASE r = "search_universities" -> search_universities(Keyword(a), rs[1])
      [] r = "search_students" -> search_students(Keyword(a), rs[1])
      [] r = "search_lecturers" -> search_lecturers(Keyword(a), rs[1])
      [] r = "search_programs" -> search_programs(Keyword(a), rs[1])
      [] r = "search_all" -> search_all(Keyword(a), rs[1])
      [] r = "get_university_detail" -> get_university_detail(rs[1])
      [] r = "get_student_detail" -> get_student_detail(rs[1])
      [] r = "get_lecturer_profile" -> get_lecturer_profile(rs[1])
      [] r = "get_university_logo" -> get_university_logo(rs[1])
      [] r = "get_university_programs" -> get_university_programs(Semester(a), rs[1])
      [] r = "get_university_stats" -> get_university_stats(rs)
      [] r = "get_lecturer_research" -> get_lecturer_research(rs)
      [] r = "get_program_detail" -> get_program_detail(rs)
      [] r = "get_national_counts" -> get_national_counts(rs)
      [] r = "get_visualization_data" -> get_visualization_data(Category(a), rs)

\* ExceptResponse without the 500: create_error_response's default status
ExceptResponse_DefaultStatus(msg) ==
    create_error_response(<<"Internal server error: ">> \o msg, DefaultErrorStatus)

\* `except Exception as e`: the response every handler builds from str(e)
ExceptResponse(msg) == create_error_response(<<"Internal server error: ">> \o msg, 500)

\* a client closed by hand at the end of the block: an exception skips it
ScopeExit_OnReturnOnly(outcome) == outcome.kind = "return"

\* Leaving `with api() as client:` releases the client whether the block
\* ends in a return or in an exception.
ScopeExit(outcome) == TRUE

\* the body of the static API map returned by GET /
HomeBody ==
    [name |-> "PDDIKTI REST API", version |-> "1.0.0",
     description |-> "REST API wrapper for PDDIKTI (Pangkalan Data Pendidikan Tinggi) Indonesia",
     endpoints |-> {"universities", "students", "lecturers", "programs", "search",
                    "statistics"}]

\* ------------------------------------------------- the upstream client
\* What the external client can hand back.  It is untyped: JSON of any
\* shape, or None.
Rec(i) == PyDict([id |-> PyInt(i)])
RecLists == {PyList(x) : x \in SeqsUpTo({Rec(1), Rec(2)}, MaxLen)}
Scalars == {PyNone, PyInt(0), PyInt(5), PyStr(<<>>), PyStr(<<"a">>)}
DataValues == RecLists \cup Scalars \cup {PyDict(EmptyMap), PyDict([k |-> PyInt(1)])}

SearchResults ==
    Scalars \cup RecLists
      \cup {PyDict(EmptyMap), PyDict([total |-> PyInt(1)])}
      \cup {PyDict([data |-> d]) : d \in DataValues}
      \cup {PyDict([data |-> d, total |-> PyInt(1)]) : d \in RecLists}

LookupResults ==
    {PyNone, PyInt(0), PyStr(<<>>), PyStr(<<"a">>), PyList(<<>>), PyList(<<Rec(1)>>),
     PyDict(EmptyMap), PyDict([nama |-> PyStr(<<"a">>)])}

ProgramsResults ==
    {PyNone, PyDict(EmptyMap), PyList(<<Rec(1)>>), PyDict([total |-> PyInt(1)])}
      \cup {PyDict([data |-> d]) : d \in RecLists \cup {PyNone, PyInt(5)}}

ScalarResults(key) ==
    {PyNone, PyList(<<>>), PyDict(EmptyMap), PyDict([k \in {key} |-> PyInt(7)]),
     PyDict([other |-> PyInt(1)]), PyList(<<Rec(1)>>)}

ResearchResults ==
    {PyNone, PyDict(EmptyMap), PyDict([total |-> PyInt(1)]), PyDict([data |-> PyNone]),
     PyDict([data |-> PyList(<<>>)]), PyDict([data |-> PyList(<<Rec(1)>>)]),
     PyList(<<Rec(1)>>)}

DetailResults ==
    {PyNone, PyDict(EmptyMap), PyList(<<>>), PyDict([nama |-> PyStr(<<"a">>)]),
     PyList(<<Rec(1)>>)}

VisualizationResults == {PyNone, PyList(<<Rec(1)>>), PyDict([data |-> PyList(<<Rec(1)>>)])}

\* the values the i-th call of handler r may return
UpstreamResults(r, i) ==
    CASE r \in SearchRoutes -> SearchResults
      [] r \in LookupRoutes \cup {"search_all"} -> LookupResults
      [] r = "get_university_programs" -> ProgramsResults
      [] r = "get_university_stats" -> ScalarResults(StatsKeys[i])
      [] r = "get_national_counts" -> ScalarResults(CountsKeys[i])
      [] r = "get_lecturer_research" -> ResearchResults
      [] r = "get_program_detail" -> DetailResults
      [] r = "get_visualization_data" -> VisualizationResults

\* str(e) of what the client raises on a transport or parsing failure
UpstreamErrors == {<<"Connection refused">>, <<"Expecting value">>}

\* ------------------------------------------------------------------ state
VARIABLES
    pc,         \* where the request is: idle, entry, acquire, call, exit, except, done
    route,      \* the handler the request was routed to
    args,       \* its query-string arguments
    held,       \* TRUE while the request is inside `with api() as client`
    acquires,   \* how often the request entered the client scope
    releases,   \* how often it left it
    calls,      \* the upstream methods called so far, in order
    results,    \* what the calls that returned have returned
    pending,    \* how the with block ended: NoOutcome, Return(..) or Raise(..)
    responses   \* the responses sent for the request

vars == <<pc, route, args, held, acquires, releases, calls, results, pending, responses>>

Init ==
    /\ pc = "idle"
    /\ route = "home"
    /\ args = NoArgs
    /\ held = FALSE
    /\ acquires = 0
    /\ releases = 0
    /\ calls = <<>>
    /\ results = <<>>
    /\ pending = NoOutcome
    /\ responses = <<>>

\* The router hands a request to its handler.
Request(r, a) ==
    /\ pc = "idle"
    /\ pc' = "entry"
    /\ route' = r
    /\ args' = a
    /\ UNCHANGED <<held, acquires, releases, calls, results, pending, responses>>

\* GET /
home ==
    /\ pc = "entry"
    /\ route = "home"
    /\ responses' = Append(responses, [status |-> 200, body |-> HomeBody])
    /\ pc' = "done"
    /\ UNCHANGED <<route, args, held, acquires, releases, calls, results, pending>>

\* The code of a handler before its try block.
Validate ==
    /\ pc = "entry"
    /\ route # "home"
    /\ LET check == PreCheck(route, args)
       IN  IF check.kind = "return"
           THEN /\ responses' = Append(responses, check.resp)
                /\ pc' = "done"
           ELSE /\ pc' = "acquire"
                /\ UNCHANGED responses
    /\ UNCHANGED <<route, args, held, acquires, releases, calls, results, pending>>

\* `with api() as client:` is entered.
Acquire ==
    /\ pc = "acquire"
    /\ held' = TRUE
    /\ acquires' = acquires + 1
    /\ pc' = "call"
    /\ UNCHANGED <<route, args, releases, calls, results, pending, responses>>

\* api() or its __enter__ raises: the with block is never entered.
AcquireRaises(e) ==
    /\ pc = "acquire"
    /\ pending' = Raise(e)
    /\ pc' = "except"
    /\ UNCHANGED <<route, args, held, acquires, releases, calls, results, responses>>

\* The next upstream call of the handler returns v.
Call(v) ==
    /\ pc = "call"
    /\ Len(results) < Len(Plan(route, args))
    /\ v \in UpstreamResults(route, Len(results) + 1)
    /\ calls' = Append(calls, Plan(route, args)[Len(results) + 1])
    /\ results' = Append(results, v)
    /\ UNCHANGED <<pc, route, args, held, acquires, releases, pending, responses>>

\* The next upstream call of the handler raises e.
CallRaises(e) ==
    /\ pc = "call"
    /\ Len(results) < Len(Plan(route, args))
    /\ calls' = Append(calls, Plan(route, args)[Len(results) + 1])
    /\ pending' = Raise(e)
    /\ pc' = "exit"
    /\ UNCHANGED <<route, args, held, acquires, releases, results, responses>>

\* All calls have returned: the rest of the with block runs.
Shape ==
    /\ pc = "call"
    /\ Len(results) = Len(Plan(route, args))
    /\ pending' = Body(route, args, results)
    /\ pc' = "exit"
    /\ UNCHANGED <<route, args, held, acquires, releases, calls, results, responses>>

\* The with block is left: the client is released, then a returned
\* response is sent or a raised exception reaches the except clause.
Release ==
    /\ pc = "exit"
    /\ IF ScopeExit(pending)
       THEN held' = FALSE /\ releases' = releases + 1
       ELSE UNCHANGED <<held, releases>>
    /\ IF pending.kind = "raise"
       THEN pc' = "except" /\ UNCHANGED responses
       ELSE pc' = "done" /\ responses' = Append(responses, pending.resp)
    /\ UNCHANGED <<route, args, acquires, calls, results, pending>>

\* `except Exception as e:` builds the 500 response.
Except ==
    /\ pc = "except"
    /\ responses' = Append(responses, ExceptResponse(pending.msg))
    /\ pc' = "done"
    /\ UNCHANGED <<route, args, held, acquires, releases, calls, results, pending>>

\* The request is over; nothing of it is kept for the next one.
Finish ==
    /\ pc = "done"
    /\ pc' = "idle"
    /\ route' = "home"
    /\ args' = NoArgs
    /\ held' = FALSE
    /\ acquires' = 0
    /\ releases' = 0
    /\ calls' = <<>>
    /\ results' = <<>>
    /\ pending' = NoOutcome
    /\ responses' = <<>>

Next ==
    \/ \E r \in Routes : \E a \in ArgsOf(r) : Request(r, a)
    \/ home
    \/ Validate
    \/ Acquire
    \/ \E e \in UpstreamErrors : AcquireRaises(e)
    \/ \E v \in SearchResults \cup LookupResults \cup ProgramsResults \cup ResearchResults
                 \cup DetailResults \cup VisualizationResults
                 \cup UNION {ScalarResults(k) : k \in {StatsKeys[i] : i \in 1..6}
                                                      \cup {CountsKeys[i] : i \in 1..4}} :
          Call(v)
    \/ \E e \in UpstreamErrors : CallRaises(e)
    \/ Shape
    \/ Release
    \/ Except
    \/ Finish

Spec == Init /\ [][Next]_vars

\* ------------------------------------------------------------ properties
Done == pc = "done"
\* the one response of a finished request
Resp == responses[1]
\* text `whole` contains text `part`
Contains(whole, part) ==
    \E i \in 1..(Len(whole) - Len(part) + 1) : SubSeq(whole, i, i + Len(part) - 1) = part

EntityOf(r) ==
    CASE r = "search_universities" -> "universities"
      [] r = "search_students" -> "students"
      [] r = "search_lecturers" -> "lecturers"
      [] r = "search_programs" -> "programs"

\* the 200 'No ... found' envelope of a keyword search
NotFoundEnvelope(r, a) ==
    [status |-> 200,
     body |-> [success |-> TRUE,
               message |-> <<"No ", EntityOf(r), " found matching '">> \o Keyword(a) \o <<"'">>,
               data |-> PyDict([data |-> PyList(<<>>)])]]

\* a keyword search whose upstream call has returned
SearchReturned == Done /\ route \in SearchRoutes /\ Len(results) = 1

\* null, an empty sequence or mapping (any falsy value), or a mapping whose
\* "data" key is absent or falsy
ListedEmpty(r) ==
    \/ ~Truthy(r)
    \/ IsDict(r) /\ ~Truthy(DictGet(r, "data"))

NotFoundShape(r) ==
    \/ ~Truthy(r)
    \/ IsDict(r) /\ ~Truthy(DictGet(r, "data"))
    \/ ~IsDict(r) /\ ~IsList(r)

\* C1 as stated: a keyword search answers with the 'No ... found' envelope
\* exactly when the upstream result is null, an empty sequence, an empty
\* mapping, or a mapping whose "data" key is absent or falsy.
C1_Original ==
    SearchReturned =>
        ((responses = <<NotFoundEnvelope(route, args)>>) <=> ListedEmpty(results[1]))

\* C1, amended: a keyword search answers with the 'No ... found' envelope
\* (data = {data: []}) exactly when the upstream result is falsy, or a mapping
\* whose "data" key is absent or falsy, or a truthy value that is neither a
\* mapping nor a list; a mapping with a present-but-falsy "data" key is a 200
\* 'not found', never an error.
C1_NotFoundIff ==
    SearchReturned =>
        /\ (responses = <<NotFoundEnvelope(route, args)>>) <=> NotFoundShape(results[1])
        /\ (IsDict(results[1]) /\ "data" \in DOMAIN results[1].map
              /\ ~Truthy(results[1].map["data"]))
             => Resp.status = 200 /\ Resp.body.success

C1_Witness ==
    /\ SearchReturned
    /\ results = <<PyDict([data |-> PyList(<<>>)])>>
    /\ responses = <<NotFoundEnvelope(route, args)>>

\* C2 as stated: every 200 response of a keyword search carries data that is
\* a mapping with a "data" key whose value is a sequence (a list; a string is
\* let pass as one); a non-empty upstream list r comes back as {data: r}.
C2_Original ==
    (SearchReturned /\ Len(responses) = 1 /\ Resp.status = 200) =>
        /\ IsDict(Resp.body.data)
        /\ "data" \in DOMAIN Resp.body.data.map
        /\ Resp.body.data.map["data"].t \in {"list", "str"}
        /\ (IsList(results[1]) /\ Truthy(results[1]))
             => Resp.body.data = PyDict([data |-> results[1]])

\* the raw value of the required parameter of a handler
RequiredParam(r, a) == IF r = "get_university_programs" THEN a.semester ELSE a.q
Blank(arg) == ~arg.present \/ Strip(arg.v) = <<>>

\* C3 as stated: a missing or blank (empty or whitespace-only) required
\* parameter gives a 400 failure envelope and no upstream call.
C3_Original ==
    (route \in QRoutes \cup {"get_university_programs"} /\ pc # "idle"
       /\ Blank(RequiredParam(route, args))) =>
        /\ calls = <<>>
        /\ Done => /\ Len(responses) = 1
                   /\ Resp.status = 400
                   /\ ~Resp.body.success
                   /\ Resp.body.data = PyNone

UniversityVisualizations ==
    <<"get_data_pt_bentuk", "get_data_pt_akreditasi", "get_data_pt_provinsi",
      "get_data_pt_kelompok_pembina">>

\* C4 as stated: an unknown category gives the 400 enum-violation envelope,
\* not a 500, with no upstream call; an absent category makes the four
\* university calls.
C4_Original ==
    (route = "get_visualization_data" /\ pc # "idle") =>
        /\ Category(args) \notin Categories =>
             /\ calls = <<>>
             /\ Done => responses = <<create_error_response(InvalidCategory, 400)>>
        /\ ~args.category.present =>
             /\ calls = SubSeq(UniversityVisualizations, 1, Len(calls))
             /\ (Done /\ Resp.status = 200) => calls = UniversityVisualizations

\* the 500 envelope of an exception whose str() is msg
IsServerError(resp, msg) ==
    /\ resp.status = 500
    /\ resp.body.success = FALSE
    /\ resp.body.data = PyNone
    /\ Contains(resp.body.error, msg)

\* C5: once a call, the client acquisition or the handler body has raised,
\* the handler issues no further upstream call and takes no further result,
\* sends nothing before the except clause, and ends with exactly one
\* response, the 500 failure envelope whose error text contains str(e).
C5_ExceptionAborts ==
    /\ [](pending.kind = "raise" =>
            IF Done THEN Len(responses) = 1 /\ IsServerError(Resp, pending.msg)
            ELSE responses = <<>>)
    /\ [][(pending.kind = "raise" /\ ~Done) => (calls' = calls /\ results' = results)]_vars

\* the third of the six calls of the university statistics raised
C5_Witness ==
    /\ Done
    /\ route = "get_university_stats"
    /\ pending.kind = "raise"
    /\ Len(calls) = 3
    /\ Len(results) = 2
    /\ Resp.status = 500

\* C6: a request enters the client scope at most once and leaves it exactly
\* as often as it entered it; no scope is held once the response is sent,
\* and upstream calls are made only while the scope is held.
C6_ScopeReleased ==
    /\ [](/\ acquires <= 1
          /\ held <=> (acquires = releases + 1)
          /\ ~held => acquires = releases
          /\ Done => ~held /\ releases = acquires)
    /\ [][(calls' # calls /\ ~Done) => (held /\ held')]_vars

\* the scope was left through an exception raised by an upstream call
C6_Witness ==
    /\ Done
    /\ pending.kind = "raise"
    /\ calls # <<>>
    /\ acquires = 1
    /\ releases = 1

LookupNotFound(r) ==
    CASE r = "get_university_detail" -> <<"University not found">>
      [] r = "get_student_detail" -> <<"Student not found">>
      [] r = "get_lecturer_profile" -> <<"Lecturer not found">>
      [] r = "get_university_logo" -> <<"University logo not found">>

LookupData(r, result) ==
    IF r = "get_university_logo"
    THEN PyDict([logo_base64 |-> result, format |-> PyStr(<<"base64">>)])
    ELSE result

\* C7: a single-entity lookup makes one upstream call (none only when the
\* client could not be acquired); a truthy result comes back as a 200 success
\* envelope around the raw result (the logo wrapped as {logo_base64, format}),
\* a falsy one as a 404 failure envelope naming the entity.
C7_Lookup ==
    route \in LookupRoutes =>
        /\ Len(calls) <= 1
        /\ (Done /\ acquires = 1) => Len(calls) = 1
        /\ (Done /\ Len(results) = 1) =>
             /\ Len(responses) = 1
             /\ IF Truthy(results[1])
                THEN /\ Resp.status = 200
                     /\ Resp.body.success
                     /\ Resp.body.data = LookupData(route, results[1])
                ELSE /\ Resp.status = 404
                     /\ ~Resp.body.success
                     /\ Resp.body.data = PyNone
                     /\ Resp.body.error = LookupNotFound(route)

C7_Witness ==
    /\ Done
    /\ route = "get_university_logo"
    /\ results = <<PyStr(<<"a">>)>>
    /\ Resp.status = 200

MergeFields(r) ==
    IF r = "get_university_stats"
    THEN <<"students", "lecturers", "programs", "ratio", "graduation_rate", "cost_range">>
    ELSE <<"active_lecturers", "active_students", "programs", "universities">>
MergeKeys(r) == IF r = "get_university_stats" THEN StatsKeys ELSE CountsKeys

\* every sub-call of a scalar merge handler returned a falsy value or a mapping
MergeReturned ==
    /\ Done
    /\ route \in {"get_university_stats", "get_national_counts"}
    /\ Len(results) = Len(MergeFields(route))
    /\ \A i \in 1..Len(results) : ~Truthy(results[i]) \/ IsDict(results[i])

\* C8: when every sub-call of the university statistics or the national
\* counts returns a falsy value or a mapping, the response is 200 with exactly
\* the fixed fields; a field is null when its sub-call result is falsy or
\* lacks the named key and is the named value otherwise.
C8_ScalarMerge ==
    MergeReturned =>
        /\ Len(responses) = 1
        /\ Resp.status = 200
        /\ Resp.body.success
        /\ IsDict(Resp.body.data)
        /\ DOMAIN Resp.body.data.map = {MergeFields(route)[i] : i \in 1..Len(results)}
        /\ \A i \in 1..Len(results) :
             Resp.body.data.map[MergeFields(route)[i]] =
                IF ~Truthy(results[i]) \/ MergeKeys(route)[i] \notin DOMAIN results[i].map
                THEN PyNone
                ELSE results[i].map[MergeKeys(route)[i]]

\* all six sub-calls of the university statistics returned null
C8_Witness ==
    /\ MergeReturned
    /\ route = "get_university_stats"
    /\ \A i \in 1..6 : results[i] = PyNone
    /\ \A k \in DOMAIN Resp.body.data.map : Resp.body.data.map[k] = PyNone

ResearchFields == <<"research", "community_service", "publications", "patents">>

\* C9 as stated: in every 200 response of the lecturer research endpoint each
\* of the four fields is a sequence, never null, and is the empty sequence
\* when its sub-call result is falsy or a mapping whose "data" key is missing
\* or null.
C9_Original ==
    (Done /\ route = "get_lecturer_research" /\ Len(responses) = 1 /\ Resp.status = 200) =>
        \A i \in 1..4 :
            /\ IsList(Resp.body.data.map[ResearchFields[i]])
            /\ (\/ ~Truthy(results[i])
                \/ IsDict(results[i]) /\ DictGet(results[i], "data") = PyNone)
                 => Resp.body.data.map[ResearchFields[i]] = PyList(<<>>)

OrEmptyMap(v) == IF Truthy(v) THEN v ELSE PyDict(EmptyMap)

\* C10: when both calls of the program detail return, the response is the
\* 404 'Program not found' exactly when both results are falsy, and otherwise
\* a 200 with data = {detail, description}, a falsy result replaced by an
\* empty mapping; both calls are issued whatever the first returns.
C10_ProgramDetail ==
    route = "get_program_detail" =>
        /\ (pending.kind = "return") =>
              calls = <<"get_detail_prodi", "get_desc_prodi">> /\ Len(results) = 2
        /\ (Done /\ Len(results) = 2) =>
              IF ~Truthy(results[1]) /\ ~Truthy(results[2])
              THEN responses = <<create_error_response(<<"Program not found">>, 404)>>
              ELSE /\ Len(responses) = 1
                   /\ Resp.status = 200
                   /\ Resp.body.success
                   /\ Resp.body.data = PyDict([detail |-> OrEmptyMap(results[1]),
                                               description |-> OrEmptyMap(results[2])])

\* the detail is missing, the description is there
C10_Witness ==
    /\ Done
    /\ route = "get_program_detail"
    /\ results = <<PyNone, PyDict([nama |-> PyStr(<<"a">>)])>>
    /\ Resp.status = 200

\* the two shapes of the fixed envelope
IsEnvelope(resp) ==
    /\ "success" \in DOMAIN resp.body
    /\ resp.body.success \in BOOLEAN
    /\ IF resp.body.success
       THEN /\ resp.status = 200
            /\ DOMAIN resp.body = {"success", "message", "data"}
       ELSE /\ resp.status \in {400, 404, 500}
            /\ DOMAIN resp.body = {"success", "error", "data"}
            /\ resp.body.data = PyNone

\* C11 as stated: every response of every route, GET / included, is the
\* fixed envelope.
C11_Original ==
    \A i \in 1..Len(responses) : IsEnvelope(responses[i])

\* C11, amended: every response of every route other than GET / is the fixed
\* envelope (success with status 200, message and data, or failure with
\* status 400, 404 or 500, error and data = null, never a mix); GET / answers
\* 200 with the static API map, which has no success field.
C11_Envelope ==
    \A i \in 1..Len(responses) :
        IF route = "home"
        THEN /\ responses[i] = [status |-> 200, body |-> HomeBody]
             /\ "success" \notin DOMAIN responses[i].body
        ELSE IsEnvelope(responses[i])

\* a lookup that found nothing has sent its failure envelope
C11_Witness ==
    /\ Done
    /\ route = "get_student_detail"
    /\ Len(responses) = 1
    /\ Resp.status = 404
    /\ IsEnvelope(Resp)

\* the data field d, handed to the same handler as its upstream result, comes
\* back as the data field
Refed(d) ==
    LET out == Body(route, args, <<d>>)
    IN  /\ out.kind = "return"
        /\ out.resp.status = 200
        /\ out.resp.body.data = d

\* C12: the data field of any 200 response of a keyword search, used as the
\* upstream result of the same search, comes back as the data field
\* unchanged; and an upstream mapping {data: [...]} with an empty or non-empty
\* list comes back as the data field unchanged.
C12_Idempotent ==
    SearchReturned =>
        /\ (Len(responses) = 1 /\ Resp.status = 200) =>
              /\ Resp.body.data \in SearchResults
              /\ Refed(Resp.body.data)
        /\ (IsDict(results[1]) /\ DOMAIN results[1].map = {"data"}
              /\ IsList(results[1].map["data"])) =>
              /\ Len(responses) = 1
              /\ Resp.status = 200
              /\ Resp.body.data = results[1]

\* a bare upstream list was wrapped, so the data field differs from the
\* upstream result it is made from
C12_Witness ==
    /\ SearchReturned
    /\ results = <<PyList(<<Rec(1), Rec(2)>>)>>
    /\ Resp.body.data = PyDict([data |-> results[1]])
    /\ Refed(Resp.body.data)

====
